---- MODULE Spec2Model ----
(***************************************************************************)
(* A model of requests/structures.py: CaseInsensitiveDict, LookupDict and  *)
(* NetworkTraffic.                                                         *)
(*                                                                         *)
(* Strings that are case-folded are sequences of character codes, so that  *)
(* str.lower() is computed character by character.  Objects live in heaps  *)
(* indexed by reference, so that "the same instance" and "a new instance"  *)
(* are different things.                                                   *)
(***************************************************************************)
EXTENDS Integers, Sequences, FiniteSets, TLC

VARIABLES
    heap,      \* reference -> [type, data]: the mappings ("d1" is the map under test)
    cpy,       \* the reference that the last copy() returned, or "none"
    written,   \* history: folded key -> [key, val] of its most recent set, while not deleted since
    everSet,   \* history: the folded keys that were ever set on d1
    nDel,      \* history: the number of deletions performed on d1
    ldict,     \* LookupDict: the instance's __dict__, attribute name -> value
    litems,    \* LookupDict: the items of the dict it inherits from, key -> value
    lstored,   \* history: the keys under which a value was stored in the LookupDict
    nt,        \* reference -> [upload, download]: the NetworkTraffic objects
    res,       \* the reference the last + or += returned, or "none"
    sum,       \* history: the field-wise sum of what was accumulated into "total"
    inc,       \* thread -> the NetworkTraffic of its request
    pc,        \* thread -> where it is in  total += inc[t]
    tmp,       \* thread -> the field value it has loaded
    lock,      \* the thread that holds the caller's mutex, or 0
    useLock    \* whether the callers serialize  total += ...  with the mutex

cidVars == <<heap, cpy, written, everSet, nDel>>
lookupVars == <<ldict, litems, lstored>>
trafficVars == <<nt, res, sum, inc, pc, tmp, lock, useLock>>
vars == <<cidVars, lookupVars, trafficVars>>

\* ------------------------------------------------------------------ bounds

MaxPairs == 2      \* longest list of pairs given to the constructor
MaxDeletes == 2    \* deletions counted by nDel
MaxPlain == 2      \* most items of the plain dict
MaxBytes == 3      \* largest field of a NetworkTraffic in the sequential specification
NumThreads == 2    \* threads that accumulate into the shared total

Threads == 1..NumThreads
NtRefs == {"total", "a", "c"}

\* ------------------------------------------------------------ sample data

\* "Ab", "aB", "H-", "x": three folded keys; one in two casings neither of
\* which is its folded form, one that is not its folded form, one that is.
Keys == { <<65, 98>>, <<97, 66>>, <<72, 45>>, <<120>> }

\* Keys used to query and delete: the above and "ab", "AB", "h-", "X", which
\* are never set.
QueryKeys == Keys \cup { <<97, 98>>, <<65, 66>>, <<104, 45>>, <<88>> }

Values == {"json", "xml"}

\* What an operation that raises KeyError yields.
KeyError == "KeyError"
NotImplemented == "NotImplemented"

\* -------------------------------------------------------- str.lower()

\* str.lower() on one character: A-Z map to a-z, everything else is kept.
LowerChar(c) == IF c >= 65 /\ c <= 90 THEN c + 32 ELSE c

\* key.lower()
Lower(key) == [i \in DOMAIN key |-> LowerChar(key[i])]

\* ------------------------------------------------- OrderedDict (_store)
\* The store is the sequence of its entries [lower, key, val] in iteration
\* order; no two entries have the same lower.

\* The position of lowered key lk in store s, 0 when absent.
IndexOf(s, lk) ==
    IF \E i \in DOMAIN s : s[i].lower = lk
    THEN CHOOSE i \in DOMAIN s : s[i].lower = lk
    ELSE 0

\* s with its i-th entry removed, the others in order.
RemoveAt(s, i) == SubSeq(s, 1, i - 1) \o SubSeq(s, i + 1, Len(s))

\* OrderedDict.__setitem__ that moves an updated key to the end.
OdSetMoveToEnd(s, lk, key, val) ==
    LET e == [lower |-> lk, key |-> key, val |-> val]
        i == IndexOf(s, lk)
    IN  IF i = 0 THEN Append(s, e) ELSE Append(RemoveAt(s, i), e)

\* OrderedDict.__setitem__: an existing key keeps its position, a new one
\* goes to the end.
OdSet(s, lk, key, val) ==
    LET e == [lower |-> lk, key |-> key, val |-> val]
        i == IndexOf(s, lk)
    IN  IF i = 0 THEN Append(s, e) ELSE [s EXCEPT ![i] = e]

\* ------------------------------------------------- CaseInsensitiveDict

\* __setitem__ that keeps the first casing of an existing key.
SetItemKeepCasing(s, key, val) ==
    LET i == IndexOf(s, Lower(key))
    IN  IF i = 0 THEN OdSet(s, Lower(key), key, val)
        ELSE OdSet(s, Lower(key), s[i].key, val)

\* __setitem__ that stores under the key as given.
SetItemNoFold(s, key, val) == OdSet(s, key, key, val)

\* __setitem__: self._store[key.lower()] = (key, value)
SetItem(s, key, val) == OdSet(s, Lower(key), key, val)

\* __contains__ (Mapping): self[key] does not raise KeyError
Contains(s, key) == IndexOf(s, Lower(key)) # 0

\* __getitem__ that looks the key up as given.
GetItemNoFold(s, key) ==
    IF IndexOf(s, key) = 0 THEN KeyError ELSE s[IndexOf(s, key)].val

\* __getitem__: self._store[key.lower()][1]
GetItem(s, key) ==
    IF IndexOf(s, Lower(key)) = 0 THEN KeyError
    ELSE s[IndexOf(s, Lower(key))].val

\* __delitem__: del self._store[key.lower()]  (only called when present;
\* otherwise KeyError is raised and the store is left as it is)
DelItem(s, key) == RemoveAt(s, IndexOf(s, Lower(key)))

\* __iter__: the cased keys of self._store.values(), in order
Iter(s) == [i \in DOMAIN s |-> s[i].key]

\* __len__: len(self._store)
Length(s) == Len(s)

\* lower_items(): (lowerkey, value) in order
LowerItems(s) == [i \in DOMAIN s |-> <<s[i].lower, s[i].val>>]

\* items() (Mapping): (key, self[key]) for key in iter(self)
Items(s) == [i \in DOMAIN Iter(s) |-> <<Iter(s)[i], GetItem(s, Iter(s)[i])>>]

\* self._store.values(): the (key, value) tuples in order
StoreValues(s) == [i \in DOMAIN s |-> <<s[i].key, s[i].val>>]

\* update(pairs) (MutableMapping): self[key] = value for each pair in order
RECURSIVE Update(_, _)
Update(s, pairs) ==
    IF pairs = <<>> THEN s
    ELSE Update(SetItem(s, Head(pairs)[1], Head(pairs)[2]), Tail(pairs))

\* __init__(data, **kwargs): a fresh empty _store, then update(data, **kwargs)
Construct(data, kwargs) == Update(Update(<<>>, data), kwargs)

\* copy() that rebuilds the map from lower_items().
CopyOfLowered(s) == Construct(LowerItems(s), <<>>)

\* copy(): CaseInsensitiveDict(self._store.values())
CopyOf(s) == Construct(StoreValues(s), <<>>)

\* dict(pairs): each key maps to the value of its last pair
Dict(pairs) ==
    [k \in {pairs[i][1] : i \in DOMAIN pairs} |->
        LET last == CHOOSE i \in DOMAIN pairs :
                       /\ pairs[i][1] = k
                       /\ \A j \in DOMAIN pairs : pairs[j][1] = k => j <= i
        IN  pairs[last][2]]

\* The (key, value) pairs a Mapping yields to update(): for a
\* CaseInsensitiveDict its items(), for a plain dict its items.
MappingPairs(obj) == IF obj.type = "cid" THEN Items(obj.data) ELSE obj.data

\* __eq__ that compares the cased items.
EqCased(s, obj) ==
    IF obj.type \in {"cid", "dict"}
    THEN Dict(Items(s)) = Dict(MappingPairs(obj))
    ELSE NotImplemented

\* __eq__(other): NotImplemented unless other is a Mapping; otherwise other
\* is rebuilt as a CaseInsensitiveDict and the dicts of lower_items compared.
Eq(s, obj) ==
    IF obj.type \in {"cid", "dict"}
    THEN Dict(LowerItems(s)) = Dict(LowerItems(Construct(MappingPairs(obj), <<>>)))
    ELSE NotImplemented

\* ------------------------------------------------------- plain dict
\* A plain dict is the sequence of its (key, value) items in insertion
\* order; keys are compared as given.

PlainIndex(d, key) ==
    IF \E i \in DOMAIN d : d[i][1] = key
    THEN CHOOSE i \in DOMAIN d : d[i][1] = key
    ELSE 0

\* dict.__setitem__
PlainSet(d, key, val) ==
    IF PlainIndex(d, key) = 0 THEN Append(d, <<key, val>>)
    ELSE [d EXCEPT ![PlainIndex(d, key)] = <<key, val>>]

\* dict.__delitem__ (only called when present)
PlainDel(d, key) == RemoveAt(d, PlainIndex(d, key))

\* --------------------------------------------------------- LookupDict

None == "None"

\* __init__(name): self.name = name puts "name" into the __dict__; the dict
\* itself starts empty
LookupInitDict(name) == [k \in {"name"} |-> name]

\* __dict__.get(key, default)
DictGet(d, key, default) == IF key \in DOMAIN d THEN d[key] ELSE default

\* get(key, default=None): self.__dict__.get(key, default)
LookupGet(d, key, default) == DictGet(d, key, default)

\* __getitem__(key): self.__dict__.get(key, None)
LookupGetItem(d, key) == DictGet(d, key, None)

\* setattr(table, key, value): the value goes into the __dict__
LookupSetAttr(d, key, val) == [k \in DOMAIN d \cup {key} |-> IF k = key THEN val ELSE d[k]]

\* table[key] = value: dict.__setitem__, which LookupDict inherits; the value
\* goes into the dict's items, not into the __dict__
LookupSetItem(items, key, val) ==
    [k \in DOMAIN items \cup {key} |-> IF k = key THEN val ELSE items[k]]

\* ------------------------------------------------------- NetworkTraffic

\* __init__(upload, download)
Traffic(u, d) == [upload |-> u, download |-> d]

\* __add__ with the download taken from the wrong field of other.
AddValWrongField(p, q) == Traffic(p.upload + q.upload, p.download + q.upload)

\* __add__: NetworkTraffic(upload=self.upload + other.upload,
\*                         download=self.download + other.download)
AddVal(p, q) == Traffic(p.upload + q.upload, p.download + q.download)

\* self.upload += other.upload: the value stored, from the value loaded
UploadSum(loaded, other) == loaded + other.upload

\* self.download += other.download with the wrong field of other.
DownloadSumWrongField(loaded, other) == loaded + other.upload

\* self.download += other.download: the value stored, from the value loaded
DownloadSum(loaded, other) == loaded + other.download

\* __iadd__ run from start to end on heap h: the two statements in order,
\* each reading self and other as they are when it runs
IAddHeap(h, x, y) ==
    LET h1 == [h EXCEPT ![x].upload = UploadSum(h[x].upload, h[y])]
    IN  [h1 EXCEPT ![x].download = DownloadSum(h1[x].download, h1[y])]

\* ------------------------------------------------------ history of d1

\* The folded form the claims speak of: k1 and k2 are the same header when
\* their lowercased forms are equal.
Fold(key) == [i \in DOMAIN key |-> IF key[i] \in 65..90 THEN key[i] + 32 ELSE key[i]]

AbsSet(w, key, val) ==
    [f \in DOMAIN w \cup {Fold(key)} |->
        IF f = Fold(key) THEN [key |-> key, val |-> val] ELSE w[f]]

AbsDel(w, key) == [f \in DOMAIN w \ {Fold(key)} |-> w[f]]

RECURSIVE AbsUpdate(_, _)
AbsUpdate(w, pairs) ==
    IF pairs = <<>> THEN w
    ELSE AbsUpdate(AbsSet(w, Head(pairs)[1], Head(pairs)[2]), Tail(pairs))

EmptyMap == [f \in {} |-> 0]

\* ---------------------------------------------------------- the heap

NoObject == [type |-> "none", data |-> <<>>]
CidObject(s) == [type |-> "cid", data |-> s]
DictObject(d) == [type |-> "dict", data |-> d]

PairLists == UNION { [1..m -> Keys \X Values] : m \in 0..MaxPairs }
KwargLists == { <<>> } \cup { <<p>> : p \in Keys \X Values }

\* d1 = CaseInsensitiveDict(data, **kwargs)
NewCid(data, kwargs) ==
    /\ heap = [r \in {"d1", "d2"} |->
                  IF r = "d1" THEN CidObject(Construct(data, kwargs)) ELSE NoObject]
    /\ cpy = "none"

\* The history starts with the pairs the constructor was given.
InitCid ==
    \E data \in PairLists, kwargs \in KwargLists :
        /\ NewCid(data, kwargs)
        /\ written = AbsUpdate(EmptyMap, data \o kwargs)
        /\ everSet = {Fold((data \o kwargs)[i][1]) : i \in DOMAIN (data \o kwargs)}
        /\ nDel = 0

\* The objects a specification does not use.
CidIdle ==
    /\ heap = [r \in {"d1", "d2"} |-> NoObject]
    /\ cpy = "none"
    /\ written = EmptyMap
    /\ everSet = {}
    /\ nDel = 0

LookupIdle ==
    /\ ldict = [k \in {"name"} |-> None]
    /\ litems = [k \in {} |-> None]
    /\ lstored = {}

TrafficIdle ==
    /\ nt = [r \in NtRefs |-> Traffic(0, 0)]
    /\ res = "none"
    /\ sum = Traffic(0, 0)
    /\ inc = [t \in Threads |-> Traffic(0, 0)]
    /\ pc = [t \in Threads |-> "done"]
    /\ tmp = [t \in Threads |-> 0]
    /\ lock = 0
    /\ useLock = FALSE

\* ------------------------------------------- Spec: one map, with history

\* d1[key] = val
Set(key, val) ==
    /\ heap' = [heap EXCEPT !["d1"].data = SetItem(@, key, val)]
    /\ written' = AbsSet(written, key, val)
    /\ everSet' = everSet \cup {Fold(key)}
    /\ UNCHANGED <<cpy, nDel, lookupVars, trafficVars>>

\* del d1[key]; when the key is absent KeyError is raised and nothing changes
Del(key) ==
    /\ Contains(heap["d1"].data, key)
    /\ nDel < MaxDeletes
    /\ heap' = [heap EXCEPT !["d1"].data = DelItem(@, key)]
    /\ written' = AbsDel(written, key)
    /\ nDel' = nDel + 1
    /\ UNCHANGED <<cpy, everSet, lookupVars, trafficVars>>

SetStep == \E key \in Keys, val \in Values : Set(key, val)
DelStep == \E key \in QueryKeys : Del(key)

Init == InitCid /\ LookupIdle /\ TrafficIdle
Next == SetStep \/ DelStep
Spec == Init /\ [][Next]_vars

\* ------------------------------- SpecCopy: the map and a copy of it

\* The history of d1 is not kept in the specifications with two objects.
InitPair ==
    /\ LookupIdle
    /\ TrafficIdle
    /\ \E data \in PairLists, kwargs \in KwargLists : NewCid(data, kwargs)
    /\ written = EmptyMap
    /\ everSet = {}
    /\ nDel = 0

\* copy() that returns the map itself.
CopyResultSelf(r) == [ref |-> r, obj |-> heap[r]]

\* r.copy(): the constructor makes a new object, here at "d2", whose store
\* is built from the (key, value) tuples of r's store
CopyResult(r) == [ref |-> "d2", obj |-> CidObject(CopyOf(heap[r].data))]

\* cpy = d1.copy(): a new CaseInsensitiveDict with a store of its own
CopyStep ==
    /\ heap' = [heap EXCEPT ![CopyResult("d1").ref] = CopyResult("d1").obj]
    /\ cpy' = CopyResult("d1").ref
    /\ UNCHANGED <<written, everSet, nDel, lookupVars, trafficVars>>

\* r[key] = val on the object r refers to
SetAt(r, key, val) ==
    /\ \/ heap[r].type = "cid"
       \/ /\ heap[r].type = "dict"
          /\ PlainIndex(heap[r].data, key) # 0 \/ Len(heap[r].data) < MaxPlain
    /\ heap' = [heap EXCEPT ![r].data =
                    IF heap[r].type = "cid" THEN SetItem(@, key, val)
                    ELSE PlainSet(@, key, val)]
    /\ UNCHANGED <<cpy, written, everSet, nDel, lookupVars, trafficVars>>

\* del r[key]; KeyError, and no change, when the key is absent
DelAt(r, key) ==
    /\ \/ heap[r].type = "cid" /\ Contains(heap[r].data, key)
       \/ heap[r].type = "dict" /\ PlainIndex(heap[r].data, key) # 0
    /\ heap' = [heap EXCEPT ![r].data =
                    IF heap[r].type = "cid" THEN DelItem(@, key)
                    ELSE PlainDel(@, key)]
    /\ UNCHANGED <<cpy, written, everSet, nDel, lookupVars, trafficVars>>

SetAtStep == \E r \in {"d1", "d2"}, key \in Keys, val \in Values : SetAt(r, key, val)
DelAtStep == \E r \in {"d1", "d2"}, key \in QueryKeys : DelAt(r, key)

NextCopy == CopyStep \/ SetAtStep \/ DelAtStep
SpecCopy == InitPair /\ [][NextCopy]_vars

\* -------------------- SpecEq: the map and another mapping to compare with

\* d2 = CaseInsensitiveDict() or d2 = {}
NewOther ==
    /\ \E obj \in {CidObject(<<>>), DictObject(<<>>)} :
           heap' = [heap EXCEPT !["d2"] = obj]
    /\ UNCHANGED <<cpy, written, everSet, nDel, lookupVars, trafficVars>>

NextEq == NewOther \/ SetAtStep \/ DelAtStep
SpecEq == InitPair /\ [][NextEq]_vars

\* ------------------------------------------- SpecLookup: a LookupDict

LKeys == {"ok", "not_found", "name"}
LQueryKeys == LKeys \cup {"missing"}
LValues == {"200", "404"}
LDefaults == LValues \cup {None}
LNames == {None, "status_codes"}

\* table = LookupDict(name)
InitLookup ==
    /\ CidIdle
    /\ TrafficIdle
    /\ \E name \in LNames : ldict = LookupInitDict(name)
    /\ litems = [k \in {} |-> None]
    /\ lstored = {}

\* setattr(table, key, val)
SetAttrStep ==
    \E key \in LKeys, val \in LValues :
        /\ ldict' = LookupSetAttr(ldict, key, val)
        /\ lstored' = lstored \cup {key}
        /\ UNCHANGED <<litems, cidVars, trafficVars>>

\* table[key] = val
SetLookupItemStep ==
    \E key \in LKeys, val \in LValues :
        /\ litems' = LookupSetItem(litems, key, val)
        /\ lstored' = lstored \cup {key}
        /\ UNCHANGED <<ldict, cidVars, trafficVars>>

NextLookup == SetAttrStep \/ SetLookupItemStep
SpecLookup == InitLookup /\ [][NextLookup]_vars

\* ------------------- SpecSeq: NetworkTraffic, one operation at a time

Operands == {"total", "a"}

\* total = NetworkTraffic(); a = NetworkTraffic(u, d)
InitSeq ==
    /\ CidIdle
    /\ LookupIdle
    /\ \E u \in 0..MaxBytes, d \in 0..MaxBytes :
           nt = [r \in NtRefs |-> IF r = "a" THEN Traffic(u, d) ELSE Traffic(0, 0)]
    /\ res = "none"
    /\ sum = Traffic(0, 0)
    /\ inc = [t \in Threads |-> Traffic(0, 0)]
    /\ pc = [t \in Threads |-> "done"]
    /\ tmp = [t \in Threads |-> 0]
    /\ lock = 0
    /\ useLock = FALSE

InBounds(p) == p.upload <= MaxBytes /\ p.download <= MaxBytes

\* c = x + y: the result is a new object, here at "c"
AddAct(x, y) ==
    /\ InBounds(AddVal(nt[x], nt[y]))
    /\ nt' = [nt EXCEPT !["c"] = AddVal(nt[x], nt[y])]
    /\ res' = "c"
    /\ UNCHANGED <<sum, inc, pc, tmp, lock, useLock, cidVars, lookupVars>>

\* x += y: x is changed in place and returned
IAddAct(x, y) ==
    /\ InBounds(IAddHeap(nt, x, y)[x])
    /\ nt' = IAddHeap(nt, x, y)
    /\ res' = x
    /\ sum' = IF x = "total"
              THEN Traffic(sum.upload + nt[y].upload, sum.download + nt[y].download)
              ELSE sum
    /\ UNCHANGED <<inc, pc, tmp, lock, useLock, cidVars, lookupVars>>

\* x + None, x += None: other is no NetworkTraffic, NotImplemented is returned
NotTrafficStep ==
    /\ res' = NotImplemented
    /\ UNCHANGED <<nt, sum, inc, pc, tmp, lock, useLock, cidVars, lookupVars>>

\* a = NetworkTraffic(u, d): the counter of the next request
NewTrafficStep ==
    /\ \E u \in 0..MaxBytes, d \in 0..MaxBytes : nt' = [nt EXCEPT !["a"] = Traffic(u, d)]
    /\ UNCHANGED <<res, sum, inc, pc, tmp, lock, useLock, cidVars, lookupVars>>

AddStep == \E x \in Operands, y \in Operands : AddAct(x, y)
IAddStep == \E x \in Operands, y \in Operands : IAddAct(x, y)

NextSeq == NewTrafficStep \/ AddStep \/ IAddStep \/ NotTrafficStep
SpecSeq == InitSeq /\ [][NextSeq]_vars

\* ------------- SpecTraffic: threads that accumulate into a shared total
\* Every thread t runs  total += inc[t]  once; the callers either take a
\* mutex around the statement (useLock), as the specification's section 5
\* asks of them, or do not.  Between the bytecodes of
\*   self.upload += other.upload;  self.download += other.download
\* another thread may run: the attribute is loaded, then the sum is stored.

IncValues == {Traffic(1, 2), Traffic(2, 1)}

InitTraffic ==
    /\ CidIdle
    /\ LookupIdle
    /\ nt = [r \in NtRefs |-> Traffic(0, 0)]
    /\ res = "none"
    /\ sum = Traffic(0, 0)
    /\ inc \in [Threads -> IncValues]
    /\ pc = [t \in Threads |-> "start"]
    /\ tmp = [t \in Threads |-> 0]
    /\ lock = 0
    /\ useLock \in BOOLEAN

trafficFrame == <<res, sum, inc, useLock, cidVars, lookupVars>>

\* The caller takes its mutex, when it uses one, before  total += inc[t].
Acquire(t) ==
    /\ pc[t] = "start"
    /\ useLock => lock = 0
    /\ lock' = IF useLock THEN t ELSE lock
    /\ pc' = [pc EXCEPT ![t] = "enter"]
    /\ UNCHANGED <<nt, tmp, trafficFrame>>

\* __iadd__ is entered: other is a NetworkTraffic
Enter(t) ==
    /\ pc[t] = "enter"
    /\ pc' = [pc EXCEPT ![t] = "loadU"]
    /\ UNCHANGED <<nt, tmp, lock, trafficFrame>>

\* self.upload is loaded
LoadUpload(t) ==
    /\ pc[t] = "loadU"
    /\ tmp' = [tmp EXCEPT ![t] = nt["total"].upload]
    /\ pc' = [pc EXCEPT ![t] = "storeU"]
    /\ UNCHANGED <<nt, lock, trafficFrame>>

\* self.upload is stored
StoreUpload(t) ==
    /\ pc[t] = "storeU"
    /\ nt' = [nt EXCEPT !["total"].upload = UploadSum(tmp[t], inc[t])]
    /\ pc' = [pc EXCEPT ![t] = "loadD"]
    /\ UNCHANGED <<tmp, lock, trafficFrame>>

\* self.download is loaded
LoadDownload(t) ==
    /\ pc[t] = "loadD"
    /\ tmp' = [tmp EXCEPT ![t] = nt["total"].download]
    /\ pc' = [pc EXCEPT ![t] = "storeD"]
    /\ UNCHANGED <<nt, lock, trafficFrame>>

\* self.download is stored
StoreDownload(t) ==
    /\ pc[t] = "storeD"
    /\ nt' = [nt EXCEPT !["total"].download = DownloadSum(tmp[t], inc[t])]
    /\ pc' = [pc EXCEPT ![t] = "return"]
    /\ UNCHANGED <<tmp, lock, trafficFrame>>

\* return self
Return(t) ==
    /\ pc[t] = "return"
    /\ pc' = [pc EXCEPT ![t] = "release"]
    /\ UNCHANGED <<nt, tmp, lock, trafficFrame>>

\* The caller releases its mutex, when it uses one.
Release(t) ==
    /\ pc[t] = "release"
    /\ lock' = IF useLock THEN 0 ELSE lock
    /\ pc' = [pc EXCEPT ![t] = "done"]
    /\ UNCHANGED <<nt, tmp, trafficFrame>>

AcquireStep == \E t \in Threads : Acquire(t)
EnterStep == \E t \in Threads : Enter(t)
LoadUploadStep == \E t \in Threads : LoadUpload(t)
StoreUploadStep == \E t \in Threads : StoreUpload(t)
LoadDownloadStep == \E t \in Threads : LoadDownload(t)
StoreDownloadStep == \E t \in Threads : StoreDownload(t)
ReturnStep == \E t \in Threads : Return(t)
ReleaseStep == \E t \in Threads : Release(t)

NextTraffic ==
    \/ AcquireStep
    \/ EnterStep
    \/ LoadUploadStep
    \/ StoreUploadStep
    \/ LoadDownloadStep
    \/ StoreDownloadStep
    \/ ReturnStep
    \/ ReleaseStep
SpecTraffic == InitTraffic /\ [][NextTraffic]_vars

\* ===================================================== the claims

D1 == heap["d1"].data
D2 == heap["d2"].data

kAb == <<65, 98>>
kaB == <<97, 66>>
kab == <<97, 98>>
kAB == <<65, 66>>

\* The folded keys in iteration order.
FoldedOrder(s) == [i \in DOMAIN Iter(s) |-> Fold(Iter(s)[i])]

\* The set of (folded key, value) pairs of a sequence of (key, value) pairs.
FoldedPairs(pairs) == {<<Fold(pairs[i][1]), pairs[i][2]>> : i \in DOMAIN pairs}

\* C1: once set(k1, v) has been done, and whatever was set or deleted since
\* on keys with another folded form, every key k2 with the folded form of k1
\* is contained in the map and get(k2) returns v.
C1_GetAfterSet ==
    \A k2 \in QueryKeys :
        Fold(k2) \in DOMAIN written =>
            /\ Contains(D1, k2)
            /\ GetItem(D1, k2) = written[Fold(k2)].val

\* "Ab" was set last for its folded key, other keys were set and deleted
\* since, and it is read back as "aB", "ab" and "AB".
C1_Witness ==
    /\ kab \in DOMAIN written
    /\ written[kab].key = kAb
    /\ nDel > 0
    /\ Length(D1) = 2
    /\ Iter(D1)[1] = kAb
    /\ GetItem(D1, kaB) = "xml"
    /\ GetItem(D1, kab) = "xml"
    /\ GetItem(D1, kAB) = "xml"

\* C2: the map holds exactly one entry per folded key that is set; iteration,
\* keys() and items() yield for it the casing of the most recent set of that
\* folded key, exactly once.  Built from [("Ab","json"),("aB","xml")] the map
\* has length 1, get("AB") is "xml" and its keys are ["aB"].
C2_OneEntryLastCasing ==
    /\ \A i, j \in DOMAIN Iter(D1) : Fold(Iter(D1)[i]) = Fold(Iter(D1)[j]) => i = j
    /\ {Fold(Iter(D1)[i]) : i \in DOMAIN Iter(D1)} = DOMAIN written
    /\ \A i \in DOMAIN Iter(D1) : Iter(D1)[i] = written[Fold(Iter(D1)[i])].key
    /\ \A i \in DOMAIN Items(D1) :
           Items(D1)[i] = <<written[Fold(Iter(D1)[i])].key, written[Fold(Iter(D1)[i])].val>>
    /\ LET m == Construct(<< <<kAb, "json">>, <<kaB, "xml">> >>, <<>>)
       IN  Length(m) = 1 /\ GetItem(m, kAB) = "xml" /\ Iter(m) = <<kaB>>

\* The folded key ab is held once, in the casing "aB" that was set after "Ab".
C2_Witness ==
    /\ Iter(D1) = <<kaB, <<120>>>>
    /\ written[kab].key = kaB
    /\ GetItem(D1, kAb) = "xml"
    /\ nDel > 0

\* C3: a set of a folded key that is present leaves the order of the folded
\* keys as it is; a set of one that is absent (never set, or deleted) appends
\* it at the end; a delete removes it and keeps the order of the others.
C3_OrderOnSet ==
    [][ /\ \A key \in Keys, val \in Values :
               Set(key, val) =>
                   IF Contains(D1, key)
                   THEN FoldedOrder(heap'["d1"].data) = FoldedOrder(D1)
                   ELSE FoldedOrder(heap'["d1"].data) = Append(FoldedOrder(D1), Fold(key))
        /\ \A key \in QueryKeys :
               Del(key) =>
                   FoldedOrder(heap'["d1"].data) =
                       SelectSeq(FoldedOrder(D1), LAMBDA f : f # Fold(key)) ]_vars

\* All three folded keys are present after a deletion, so one of them was
\* deleted and set again.
C3_Witness ==
    /\ nDel = 1
    /\ Length(D1) = 3
    /\ Iter(D1) = << <<72, 45>>, <<120>>, kaB >>

\* C4 as stated: length() is the number of distinct folded keys ever set
\* minus the number of deletions.
C4_LengthEverSetMinusDeletions == Length(D1) = Cardinality(everSet) - nDel

\* C4 amended: length() is the number of distinct folded keys that were set
\* and not deleted since, however many casings were used to set them.
C4_LengthCountsLiveFoldedKeys == Length(D1) = Cardinality(DOMAIN written)

\* A folded key was set in two casings, deleted and set again.
C4_Witness ==
    /\ nDel > 0
    /\ Cardinality(everSet) = 2
    /\ Length(D1) = 2
    /\ kab \in DOMAIN written

\* C5 as stated: equals is true exactly when the two mappings have the same
\* set of (folded key, value) pairs.
C5_EqIffFoldedPairs ==
    heap["d2"].type \in {"cid", "dict"} =>
        (Eq(D1, heap["d2"]) <=>
            FoldedPairs(Items(D1)) = FoldedPairs(MappingPairs(heap["d2"])))

\* No two keys of the mapping have the same folded form.
NoFoldCollision(pairs) ==
    \A i, j \in DOMAIN pairs : Fold(pairs[i][1]) = Fold(pairs[j][1]) => i = j

\* C5 amended: for another CaseInsensitiveDict, or a plain mapping no two
\* keys of which have the same folded form, equals is true exactly when the
\* two have the same set of (folded key, value) pairs.
C5_EqIffFoldedPairsNoCollision ==
    (/\ heap["d2"].type \in {"cid", "dict"}
     /\ NoFoldCollision(MappingPairs(heap["d2"]))) =>
        (Eq(D1, heap["d2"]) <=>
            FoldedPairs(Items(D1)) = FoldedPairs(MappingPairs(heap["d2"])))

\* Two maps that are equal with the keys in other casings and the other order.
C5_Witness ==
    /\ heap["d2"].type = "cid"
    /\ Eq(D1, heap["d2"]) = TRUE
    /\ Iter(D1) = <<kAb, <<120>>>>
    /\ Iter(D2) = << <<120>>, kaB >>

\* C6: copy() returns a new map with the items of the original, in the same
\* casing and order, that equals it, and leaves the original as it was; a
\* later set or delete on the copy leaves the original as it was, and one on
\* the original leaves the copy as it was.
C6_CopyIndependent ==
    [][ /\ CopyStep =>
               /\ heap'["d1"] = heap["d1"]
               /\ cpy' # "d1"
               /\ Items(heap'[cpy'].data) = Items(D1)
               /\ Iter(heap'[cpy'].data) = Iter(D1)
               /\ Eq(heap'["d1"].data, heap'[cpy']) = TRUE
               /\ Eq(heap'[cpy'].data, heap'["d1"]) = TRUE
        /\ cpy # "none" =>
               /\ \/ Items(heap'["d1"].data) = Items(D1)
                  \/ ~ \/ \E key \in Keys, val \in Values : SetAt(cpy, key, val)
                       \/ \E key \in QueryKeys : DelAt(cpy, key)
               /\ \/ Items(heap'[cpy].data) = Items(heap[cpy].data)
                  \/ ~ \/ \E key \in Keys, val \in Values : SetAt("d1", key, val)
                       \/ \E key \in QueryKeys : DelAt("d1", key) ]_vars

\* A copy was made, and the copy and the original were changed since.
C6_Witness ==
    /\ cpy = "d2"
    /\ Iter(D1) = <<kAb, <<120>>>>
    /\ Iter(D2) = << <<72, 45>> >>

\* C7 as stated: for a key under which no value was stored, get(k, d) returns
\* d and table[k] returns None, whatever the table's name and the default,
\* and table[k] is get(k, None).
C7_MissingKeyDefaults ==
    \A k \in LQueryKeys \ lstored, d \in LDefaults :
        /\ LookupGet(ldict, k, d) = d
        /\ LookupGetItem(ldict, k) = None
        /\ LookupGetItem(ldict, k) = LookupGet(ldict, k, None)

\* (100, 200) + (50, 150), the values of the tests
T100 == Traffic(100, 200)
T50 == Traffic(50, 150)

\* C8: a + b returns a new counter whose fields are the sums of the fields
\* of a and b, and leaves a and b as they were.
C8_AddPure ==
    [][ \A x \in Operands, y \in Operands :
            AddAct(x, y) =>
                /\ res' \notin {x, y}
                /\ nt'[res'].upload = nt[x].upload + nt[y].upload
                /\ nt'[res'].download = nt[x].download + nt[y].download
                /\ nt'[x] = nt[x]
                /\ nt'[y] = nt[y]
                /\ AddVal(T100, T50) = Traffic(150, 350) ]_vars

\* A sum of two different counters with different fields was returned.
C8_Witness ==
    /\ res = "c"
    /\ nt["total"] = Traffic(1, 2)
    /\ nt["a"] = Traffic(2, 0)
    /\ nt["c"] = Traffic(3, 2)

\* What the running total and the increments a and c give in either order.
ThenBoth(h, first, second) == IAddHeap(IAddHeap(h, "total", first), "total", second)

\* C9 as stated: a += b changes a in place to what a + b returns, returns a,
\* and leaves b as it was.
C9_IAddLeavesOther ==
    [][ \A x \in Operands, y \in Operands :
            IAddAct(x, y) =>
                /\ nt'[x] = AddVal(nt[x], nt[y])
                /\ res' = x
                /\ nt'[y] = nt[y] ]_vars

\* C9 amended: a += b changes a in place to what a + b returns, returns a,
\* and leaves b as it was when b is another instance than a (and every
\* other instance too); the running total is at every step the field-wise
\* sum of what was accumulated into it, and accumulating two counters into
\* it gives the same total in either order, the one a + b + c gives.
C9_IAddAsAdd ==
    /\ [](/\ nt["total"] = sum
          /\ ThenBoth(nt, "a", "c")["total"] = ThenBoth(nt, "c", "a")["total"]
          /\ ThenBoth(nt, "a", "c")["total"] = AddVal(AddVal(nt["total"], nt["a"]), nt["c"])
          /\ ThenBoth([total |-> Traffic(0, 0), a |-> T100, c |-> T50], "a", "c")["total"]
                 = Traffic(150, 350))
    /\ [][ \A x \in Operands, y \in Operands :
               IAddAct(x, y) =>
                   /\ nt'[x] = AddVal(nt[x], nt[y])
                   /\ res' = x
                   /\ \A r \in NtRefs \ {x} : nt'[r] = nt[r] ]_vars

\* The total was returned by a += that added another counter to it.
C9_Witness ==
    /\ res = "total"
    /\ nt["total"] = Traffic(3, 1)
    /\ nt["a"] = Traffic(1, 0)
    /\ sum = Traffic(3, 1)

RECURSIVE UploadOf(_)
UploadOf(S) ==
    IF S = {} THEN 0
    ELSE LET t == CHOOSE t \in S : TRUE IN inc[t].upload + UploadOf(S \ {t})

RECURSIVE DownloadOf(_)
DownloadOf(S) ==
    IF S = {} THEN 0
    ELSE LET t == CHOOSE t \in S : TRUE IN inc[t].download + DownloadOf(S \ {t})

\* The threads whose call has returned, and those whose call is under way.
Finished == {t \in Threads : pc[t] \in {"release", "done"}}
Inside == {t \in Threads : pc[t] \notin {"start", "release", "done"}}

\* C10: when the calls are serialized, no two of them are under way at once,
\* and whenever none is under way the total is the field-wise sum of the
\* increments of the calls that have ended; serialized or not, no field of
\* the total exceeds the sum of all increments.  Without serialization a
\* lost update is reachable (C10_LostUpdate) and so is a state with one
\* call's upload in the total and its download not (C10_HalfApplied).
C10_SerializedTotalIsSum ==
    /\ useLock =>
           /\ Cardinality(Inside) <= 1
           /\ Inside = {} =>
                  nt["total"] = Traffic(UploadOf(Finished), DownloadOf(Finished))
    /\ nt["total"].upload <= UploadOf(Threads)
    /\ nt["total"].download <= DownloadOf(Threads)

\* Without the mutex: every call has ended and the upload of one is lost,
\* while no download is.
C10_LostUpdate ==
    /\ ~useLock
    /\ Finished = Threads
    /\ nt["total"].upload < UploadOf(Threads)
    /\ nt["total"].download = DownloadOf(Threads)

\* Without the mutex: two calls are under way, and the total holds the
\* upload of one of them only and no download yet.
C10_HalfApplied ==
    /\ ~useLock
    /\ Cardinality(Inside) >= 2
    /\ \E t \in Inside : nt["total"].upload = inc[t].upload
    /\ nt["total"].download = 0

====
